---- MODULE Spec2Model ----
(***************************************************************************)
(* FileLock (src/flock.rs): a lock file opened on demand, locked through   *)
(* the advisory locking primitive of the `lock` module.                    *)
(*                                                                         *)
(* The model keeps, per FileLock instance, the three fields of the struct  *)
(* (path, file, mode) and, for the operating system, the table of open     *)
(* file descriptions, the advisory lock each of them holds, and which      *)
(* paths exist.  Every public method is one action; a blocking lock() that *)
(* meets an incompatible holder is suspended and completes in a later      *)
(* step.                                                                   *)
(***************************************************************************)
EXTENDS Naturals, Sequences, FiniteSets

VARIABLES
    life,       \* life[i]  : "unborn", "live" or "dropped"
    path,       \* path[i]  : FileLock.path
    mode,       \* mode[i]  : FileLock.mode
    file,       \* file[i]  : FileLock.file, None or a descriptor
    pc,         \* pc[i]    : "idle", or "blocked" inside lock()
    last,       \* last[i]  : the last call made on i, with its result (Suspended
                \*             while a lock() waits)
    trip,       \* trip[i]  : how much of lock(), unlock(), lock(), each returning
                \*             Ok, the most recent calls on i amount to
    attempted,  \* attempted[i] : lock() or try_lock() was called on i
    acquired,   \* acquired[i]  : i's last lock()/try_lock() returned Ok and
                \*                i was not unlocked since
    released,   \* released[i] : the path whose lock the drop of i released,
                \*                NoPath when i was not dropped holding a lock
    exists,     \* exists[p] : a file exists at path p
    creator,    \* creator[p] : the instance whose open call created the file at
                \*              p, None when no FileLock created it
    ofd,        \* ofd[d]    : the open file description of descriptor d
    locks       \* locks[d]  : the advisory lock held through descriptor d

vars == <<life, path, mode, file, pc, last, trip, attempted, acquired, released,
          exists, creator, ofd, locks>>

\* Number of FileLock instances that are created in a behaviour.
NumInst == 2

Inst == 1 .. NumInst
\* Two lock files: one that exists before any FileLock is made, one that does
\* not.
Paths == {"old.lock", "new.lock"}
FdSet == 1 .. NumInst

AccessMode == {"Read", "Write"}
LockKind == {"Blocking", "NonBlocking"}

None == 0
NoPath == "nopath"
NoMode == "nomode"
Closed == [path |-> NoPath, read |-> FALSE, write |-> FALSE]
Unlocked == "Unlocked"

\* Result<(), Error>
Ok == <<"Ok">>
IoError(e) == <<"IoError", e>>
LockError(e) == <<"LockError", e>>

\* Faulty variant of the conversion of io::Error: it yields a LockError.
FromIo_lock(e) == LockError(e)

\* impl From<io::Error> for Error
FromIo(e) == IoError(e)

\* impl From<lock::Error> for Error
FromLock(e) == LockError(e)

\* A result of the standard library or of the locking primitive.
Err(e) == <<"Err", e>>
\* The locking primitive has suspended the caller (kind Blocking).
Suspended == <<"Suspended">>

\* ---------------------------------------------------------------------
\* The operating system
\* ---------------------------------------------------------------------

\* The descriptors that are not open.
FreeFds(o) == {d \in FdSet : o[d] = Closed}

\* The lowest descriptor that is not open (open(2) returns the lowest).
LowestFree(o) == CHOOSE d \in FreeFds(o) : \A e \in FreeFds(o) : d <= e

\* OpenOptions::new().create(true).read(m == Read).write(m == Write).open(p).
\* The standard library refuses create(true) without write or append access
\* before any system call, with the error InvalidInput: that is every call
\* of mode Read.  Otherwise openOk is whether the operating system lets the
\* call succeed, and a successful call creates the file when it is missing.
open(o, ex, p, m, openOk) ==
    IF m # "Write"
    THEN [res |-> Err("InvalidInput"), fd |-> None, ofd |-> o, exists |-> ex]
    ELSE IF openOk /\ FreeFds(o) # {}
         THEN [res |-> Ok,
               fd |-> LowestFree(o),
               ofd |-> [o EXCEPT ![LowestFree(o)] =
                            [path |-> p, read |-> (m = "Read"), write |-> (m = "Write")]],
               exists |-> [ex EXCEPT ![p] = TRUE]]
         ELSE [res |-> Err("OpenFailed"), fd |-> None, ofd |-> o, exists |-> ex]

\* The descriptors other than fd that hold a lock on the file fd is open on.
OtherHolders(o, lk, fd) ==
    {g \in FdSet \ {fd} : o[g] # Closed /\ o[g].path = o[fd].path /\ lk[g] # Unlocked}

\* Read is shared, Write is exclusive.
Compatible(o, lk, fd, m) ==
    IF m = "Write"
    THEN OtherHolders(o, lk, fd) = {}
    ELSE \A g \in OtherHolders(o, lk, fd) : lk[g] = "Read"

\* lock::lock(fd, kind, mode)
lock_prim(o, lk, fd, kind, m) ==
    IF Compatible(o, lk, fd, m)
    THEN [res |-> Ok, locks |-> [lk EXCEPT ![fd] = m]]
    ELSE IF kind = "NonBlocking"
         THEN [res |-> Err("WouldBlock"), locks |-> lk]
         ELSE [res |-> Suspended, locks |-> lk]

\* lock::unlock(fd)
unlock_prim(lk, fd) == [res |-> Ok, locks |-> [lk EXCEPT ![fd] = Unlocked]]

\* Closing a descriptor (the File field is dropped with its FileLock): the
\* open file description goes away and with it the lock it holds.
close(o, lk, fd) ==
    IF fd = None
    THEN [ofd |-> o, locks |-> lk]
    ELSE [ofd |-> [o EXCEPT ![fd] = Closed], locks |-> [lk EXCEPT ![fd] = Unlocked]]

\* ---------------------------------------------------------------------
\* FileLock
\* ---------------------------------------------------------------------

\* Faulty variant of new: the handle is set at construction.
new_eager(p, m) == [path |-> p, file |-> 1, mode |-> m]

\* FileLock::new
new(p, m) == [path |-> p, file |-> None, mode |-> m]

\* Faulty variant of opened_file: the handle that is there is not reused,
\* the path is opened again.
opened_file_reopen(i, openOk) ==
    LET o == open(ofd, exists, path[i], mode[i], openOk)
    IN  IF o.res = Ok
        THEN [res |-> Ok, file |-> o.fd, ofd |-> o.ofd, exists |-> o.exists]
        ELSE [res |-> o.res, file |-> file[i], ofd |-> o.ofd, exists |-> o.exists]

\* FileLock::opened_file
opened_file(i, openOk) ==
    IF file[i] # None
    THEN [res |-> Ok, file |-> file[i], ofd |-> ofd, exists |-> exists]
    ELSE LET o == open(ofd, exists, path[i], mode[i], openOk)
         IN  IF o.res = Ok
             THEN [res |-> Ok, file |-> o.fd, ofd |-> o.ofd, exists |-> o.exists]
             ELSE [res |-> o.res, file |-> file[i], ofd |-> o.ofd, exists |-> o.exists]

\* Faulty variant of any_lock: the mode handed to the primitive is m, not
\* self.mode; with Read every lock is taken shared.
any_lock_mode(i, kind, openOk, m) ==
    LET f == opened_file(i, openOk)
    IN  IF f.res # Ok
        THEN [res |-> FromIo(f.res[2]), file |-> f.file, ofd |-> f.ofd,
              exists |-> f.exists, locks |-> locks]
        ELSE LET l == lock_prim(f.ofd, locks, f.file, kind, m)
             IN  [res |-> IF l.res \in {Ok, Suspended} THEN l.res ELSE FromLock(l.res[2]),
                  file |-> f.file, ofd |-> f.ofd, exists |-> f.exists, locks |-> l.locks]

any_lock_shared(i, kind, openOk) == any_lock_mode(i, kind, openOk, "Read")

\* Faulty variant of any_lock: the primitive's error is not propagated.
any_lock_unchecked(i, kind, openOk) ==
    LET f == opened_file(i, openOk)
    IN  IF f.res # Ok
        THEN [res |-> FromIo(f.res[2]), file |-> f.file, ofd |-> f.ofd,
              exists |-> f.exists, locks |-> locks]
        ELSE LET l == lock_prim(f.ofd, locks, f.file, kind, mode[i])
             IN  [res |-> IF l.res = Suspended THEN l.res ELSE Ok,
                  file |-> f.file, ofd |-> f.ofd, exists |-> f.exists, locks |-> l.locks]

\* FileLock::any_lock
any_lock(i, kind, openOk) ==
    LET f == opened_file(i, openOk)
    IN  IF f.res # Ok
        THEN [res |-> FromIo(f.res[2]), file |-> f.file, ofd |-> f.ofd,
              exists |-> f.exists, locks |-> locks]
        ELSE LET l == lock_prim(f.ofd, locks, f.file, kind, mode[i])
             IN  [res |-> IF l.res \in {Ok, Suspended} THEN l.res ELSE FromLock(l.res[2]),
                  file |-> f.file, ofd |-> f.ofd, exists |-> f.exists, locks |-> l.locks]

\* Faulty variant of lock: the kind is NonBlocking.
lock_nonblocking(i, openOk) == any_lock(i, "NonBlocking", openOk)

\* FileLock::lock
lock(i, openOk) == any_lock(i, "Blocking", openOk)

\* Faulty variant of try_lock: the kind is Blocking.
try_lock_blocking(i, openOk) ==
    LET f == opened_file(i, openOk)
    IN  IF f.res # Ok
        THEN [res |-> FromIo(f.res[2]), file |-> f.file, ofd |-> f.ofd,
              exists |-> f.exists, locks |-> locks]
        ELSE LET l == lock_prim(f.ofd, locks, f.file, "Blocking", mode[i])
             IN  [res |-> IF l.res \in {Ok, Suspended} THEN l.res ELSE FromLock(l.res[2]),
                  file |-> f.file, ofd |-> f.ofd, exists |-> f.exists, locks |-> l.locks]

\* FileLock::try_lock
try_lock(i, openOk) == any_lock(i, "NonBlocking", openOk)

\* Faulty variant of unlock: without a handle it is a no-op that succeeds.
unlock_noop(i) ==
    IF file[i] # None
    THEN LET u == unlock_prim(locks, file[i])
         IN  [res |-> IF u.res = Ok THEN Ok ELSE FromLock(u.res[2]),
              locks |-> u.locks, exists |-> exists]
    ELSE [res |-> Ok, locks |-> locks, exists |-> exists]

\* Faulty variant of unlock: the primitive is not called.
unlock_no_release(i) ==
    IF file[i] # None
    THEN [res |-> Ok, locks |-> locks, exists |-> exists]
    ELSE [res |-> FromIo("NotFound"), locks |-> locks, exists |-> exists]

\* Faulty variant of unlock: the lock file is removed once the lock is
\* released, as the type's documentation has it.
unlock_remove(i) ==
    IF file[i] # None
    THEN LET u == unlock_prim(locks, file[i])
         IN  [res |-> IF u.res = Ok THEN Ok ELSE FromLock(u.res[2]),
              locks |-> u.locks, exists |-> [exists EXCEPT ![path[i]] = FALSE]]
    ELSE [res |-> FromIo("NotFound"), locks |-> locks, exists |-> exists]

\* Faulty variant of unlock: the lock of every description open on the path
\* is released, not only the lock of the instance's own handle.
unlock_path(i) ==
    IF file[i] # None
    THEN [res |-> Ok,
          locks |-> [d \in FdSet |->
                        IF ofd[d] # Closed /\ ofd[d].path = path[i]
                        THEN Unlocked ELSE locks[d]],
          exists |-> exists]
    ELSE [res |-> FromIo("NotFound"), locks |-> locks, exists |-> exists]

\* Faulty variant of unlock: without a handle the file is opened, and so
\* created, as lock() and try_lock() do.
unlock_create(i) ==
    IF file[i] # None
    THEN LET u == unlock_prim(locks, file[i])
         IN  [res |-> IF u.res = Ok THEN Ok ELSE FromLock(u.res[2]),
              locks |-> u.locks, exists |-> exists]
    ELSE [res |-> Ok, locks |-> locks, exists |-> [exists EXCEPT ![path[i]] = TRUE]]

\* FileLock::unlock
unlock(i) ==
    IF file[i] # None
    THEN LET u == unlock_prim(locks, file[i])
         IN  [res |-> IF u.res = Ok THEN Ok ELSE FromLock(u.res[2]),
              locks |-> u.locks, exists |-> exists]
    ELSE [res |-> FromIo("NotFound"), locks |-> locks, exists |-> exists]

\* Faulty variant of drop: neither unlock() is called nor the handle closed.
drop_leak(i) == [ofd |-> ofd, locks |-> locks, exists |-> exists]

\* Faulty variant of drop_after: an error of unlock() ends the destructor
\* before the handle is closed.
drop_after_strict(i, u) ==
    IF u.res = Ok
    THEN LET c == close(ofd, u.locks, file[i])
         IN  [ofd |-> c.ofd, locks |-> c.locks, exists |-> u.exists]
    ELSE [ofd |-> ofd, locks |-> u.locks, exists |-> u.exists]

\* The destructor once its unlock() call has returned u: .ok() discards
\* u.res, then the fields are dropped and the handle is closed.
drop_after(i, u) ==
    LET c == close(ofd, u.locks, file[i])
    IN  [ofd |-> c.ofd, locks |-> c.locks, exists |-> u.exists]

\* impl Drop for FileLock: self.unlock().ok(), then the fields are dropped.
drop(i) == drop_after(i, unlock(i))

\* ---------------------------------------------------------------------
\* The state machine
\* ---------------------------------------------------------------------

\* No call has returned yet.
NoCall == <<"none", Ok>>

\* The round trip lock(), unlock(), lock() after one more call: t of its
\* steps were completed, and the call op has returned res; a lock() that is
\* suspended has not returned and counts once it does.
Trip(t, op, res) ==
    IF res = Suspended THEN t
    ELSE IF res # Ok THEN 0
    ELSE IF op = "lock" THEN (IF t = 2 THEN 3 ELSE 1)
    ELSE IF op = "unlock" THEN (IF t \in {1, 3} THEN 2 ELSE 0)
    ELSE 0

Callable(i) == life[i] = "live" /\ pc[i] = "idle"

Init ==
    /\ life = [i \in Inst |-> "unborn"]
    /\ path = [i \in Inst |-> NoPath]
    /\ mode = [i \in Inst |-> NoMode]
    /\ file = [i \in Inst |-> None]
    /\ pc = [i \in Inst |-> "idle"]
    /\ last = [i \in Inst |-> NoCall]
    /\ trip = [i \in Inst |-> 0]
    /\ attempted = [i \in Inst |-> FALSE]
    /\ acquired = [i \in Inst |-> FALSE]
    /\ released = [i \in Inst |-> NoPath]
    /\ exists = [p \in Paths |-> p = "old.lock"]
    /\ creator = [p \in Paths |-> None]
    /\ ofd = [d \in FdSet |-> Closed]
    /\ locks = [d \in FdSet |-> Unlocked]

New(i, p, m) ==
    /\ life[i] = "unborn"
    /\ life' = [life EXCEPT ![i] = "live"]
    /\ path' = [path EXCEPT ![i] = new(p, m).path]
    /\ mode' = [mode EXCEPT ![i] = new(p, m).mode]
    /\ file' = [file EXCEPT ![i] = new(p, m).file]
    /\ UNCHANGED <<pc, last, trip, attempted, acquired, released, exists, creator, ofd, locks>>

\* The effect of a call of lock() or try_lock() that produced r.
Acquire(i, op, r) ==
    /\ file' = [file EXCEPT ![i] = r.file]
    /\ ofd' = r.ofd
    /\ exists' = r.exists
    /\ creator' = [p \in Paths |-> IF r.exists[p] /\ ~exists[p] THEN i ELSE creator[p]]
    /\ locks' = r.locks
    /\ pc' = [pc EXCEPT ![i] = IF r.res = Suspended THEN "blocked" ELSE "idle"]
    /\ last' = [last EXCEPT ![i] = <<op, r.res>>]
    /\ trip' = [trip EXCEPT ![i] = Trip(@, op, r.res)]
    /\ attempted' = [attempted EXCEPT ![i] = TRUE]
    /\ acquired' = [acquired EXCEPT ![i] = IF r.res = Ok THEN TRUE ELSE @]
    /\ UNCHANGED <<life, path, mode, released>>

Lock(i, openOk) ==
    /\ Callable(i)
    /\ \E r \in {lock(i, openOk)} : Acquire(i, "lock", r)

\* A suspended lock() is granted the lock and returns.
LockReturn(i) ==
    /\ life[i] = "live" /\ pc[i] = "blocked"
    /\ \E r \in {lock(i, TRUE)} : r.res = Ok /\ Acquire(i, "lock", r)

\* A suspended lock() is interrupted and returns the primitive's error.
LockInterrupted(i) ==
    /\ life[i] = "live" /\ pc[i] = "blocked"
    /\ pc' = [pc EXCEPT ![i] = "idle"]
    /\ last' = [last EXCEPT ![i] = <<"lock", FromLock("Interrupted")>>]
    /\ trip' = [trip EXCEPT ![i] = Trip(@, "lock", FromLock("Interrupted"))]
    /\ UNCHANGED <<life, path, mode, file, attempted, acquired, released, exists, creator,
                   ofd, locks>>

TryLock(i, openOk) ==
    /\ Callable(i)
    /\ \E r \in {try_lock(i, openOk)} : Acquire(i, "try_lock", r)

Unlock(i) ==
    /\ Callable(i)
    /\ \E r \in {unlock(i)} :
          /\ locks' = r.locks
          /\ exists' = r.exists
          /\ last' = [last EXCEPT ![i] = <<"unlock", r.res>>]
          /\ trip' = [trip EXCEPT ![i] = Trip(@, "unlock", r.res)]
          /\ acquired' = [acquired EXCEPT ![i] = IF r.res = Ok THEN FALSE ELSE @]
    /\ UNCHANGED <<life, path, mode, file, pc, attempted, released, creator, ofd>>

Drop(i) ==
    /\ Callable(i)
    /\ life' = [life EXCEPT ![i] = "dropped"]
    /\ \E r \in {drop(i)} : ofd' = r.ofd /\ locks' = r.locks /\ exists' = r.exists
    /\ file' = [file EXCEPT ![i] = None]
    /\ acquired' = [acquired EXCEPT ![i] = FALSE]
    /\ released' = [released EXCEPT ![i] = IF acquired[i] THEN path[i] ELSE NoPath]
    /\ last' = [last EXCEPT ![i] = <<"drop", unlock(i).res>>]
    /\ path' = [path EXCEPT ![i] = NoPath]
    /\ mode' = [mode EXCEPT ![i] = NoMode]
    /\ trip' = [trip EXCEPT ![i] = 0]
    /\ attempted' = [attempted EXCEPT ![i] = FALSE]
    /\ UNCHANGED <<pc, creator>>

\* The outcomes the open call can have when i calls lock() or try_lock(): none
\* is made when the handle is already there.
OpenOutcomes(i) == IF file[i] = None THEN BOOLEAN ELSE {TRUE}

Next ==
    \/ \E i \in Inst, p \in Paths, m \in AccessMode : New(i, p, m)
    \/ \E i \in Inst : \E openOk \in OpenOutcomes(i) : Lock(i, openOk)
    \/ \E i \in Inst : LockReturn(i)
    \/ \E i \in Inst : LockInterrupted(i)
    \/ \E i \in Inst : \E openOk \in OpenOutcomes(i) : TryLock(i, openOk)
    \/ \E i \in Inst : Unlock(i)
    \/ \E i \in Inst : Drop(i)

Spec == Init /\ [][Next]_vars

\* The operating system grants a lock to a suspended lock() that stays
\* grantable; it promises no order among the waiters.
FairSpec == Spec /\ \A i \in Inst : WF_vars(LockReturn(i))

TypeOK ==
    /\ life \in [Inst -> {"unborn", "live", "dropped"}]
    /\ path \in [Inst -> Paths \cup {NoPath}]
    /\ mode \in [Inst -> AccessMode \cup {NoMode}]
    /\ file \in [Inst -> FdSet \cup {None}]
    /\ pc \in [Inst -> {"idle", "blocked"}]
    /\ attempted \in [Inst -> BOOLEAN]
    /\ acquired \in [Inst -> BOOLEAN]
    /\ released \in [Inst -> Paths \cup {NoPath}]
    /\ trip \in [Inst -> 0 .. 3]
    /\ exists \in [Paths -> BOOLEAN]
    /\ creator \in [Paths -> Inst \cup {None}]
    /\ locks \in [FdSet -> AccessMode \cup {Unlocked}]


\* ---------------------------------------------------------------------
\* Properties
\* ---------------------------------------------------------------------

Live(i) == life[i] = "live"

\* The operating system has a lock recorded for i's handle.
Holds(i) == file[i] # None /\ locks[file[i]] # Unlocked

\* The live instances other than i that were made for the path of i.
Rivals(i) == {j \in Inst \ {i} : Live(j) /\ path[j] = path[i]}

\* No other instance holds a lock on the path of i.
NoOtherHolder(i) == \A j \in Rivals(i) : ~acquired[j]

\* The open call of a lock()/try_lock() on i succeeds, or none is made.
Opens(i, openOk) == opened_file(i, openOk).res = Ok

\* In this step a call of op was made on i, or nothing of i has changed.
Called(i, op) == Callable(i) /\ Live(i)' /\ last'[i][1] = op

WouldBlock == LockError("WouldBlock")
NotFound == IoError("NotFound")

\* C1: multiple readers, single writer: an instance whose lock()/try_lock()
\* returned Ok holds its lock in the mode it was made with, and while a Write
\* instance holds its lock no other instance on the same path holds any lock.
C1_Exclusion ==
    \A i \in Inst :
        /\ acquired[i] => Live(i) /\ Holds(i) /\ locks[file[i]] = mode[i]
        /\ acquired[i] /\ mode[i] = "Write" =>
               \A j \in Rivals(i) : ~acquired[j] /\ ~Holds(j)
        /\ Holds(i) /\ locks[file[i]] = "Write" =>
               \A j \in Rivals(i) : ~Holds(j)

\* A Write instance holds its lock while another instance on the same path
\* has just been refused.
C1_Witness ==
    \E i \in Inst : \E j \in Rivals(i) :
        /\ acquired[i] /\ mode[i] = "Write" /\ Holds(i)
        /\ last[j] = <<"try_lock", WouldBlock>>
        /\ ~Holds(j)

\* C2: a try_lock() on a Write instance whose open call succeeds returns Ok,
\* holding the lock, exactly when no other instance holds a lock on the path;
\* otherwise it returns the contention error, changes no lock, and in either
\* case the caller is not suspended.
C2_TryWrite ==
    [][\A i \in Inst : \A openOk \in BOOLEAN :
          (mode[i] = "Write" /\ Opens(i, openOk) /\ Called(i, "try_lock")
              /\ TryLock(i, openOk))
          =>
              /\ pc'[i] = "idle"
              /\ (last'[i] = <<"try_lock", Ok>>) <=> NoOtherHolder(i)
              /\ (last'[i] = <<"try_lock", Ok>>) => acquired'[i] /\ Holds(i)'
              /\ (last'[i] # <<"try_lock", Ok>>) =>
                     /\ last'[i] = <<"try_lock", WouldBlock>>
                     /\ ~acquired'[i]
                     /\ locks' = locks]_vars

\* A Write try_lock() was refused while another instance holds the lock it
\* took with lock().
C2_Witness ==
    \E i \in Inst : \E j \in Rivals(i) :
        /\ mode[i] = "Write" /\ last[i] = <<"try_lock", WouldBlock>> /\ pc[i] = "idle"
        /\ last[j] = <<"lock", Ok>> /\ acquired[j] /\ Holds(j)

\* C3: while a Write instance A holds its lock, every try_lock() of another
\* instance on the same path, of either mode, fails and leaves A's lock in
\* place; and A stops holding only through its own unlock() or drop.
C3_WriterBlocks ==
    [][\A a \in Inst :
          acquired[a] /\ mode[a] = "Write" =>
              /\ \A b \in Rivals(a) : \A openOk \in BOOLEAN :
                     Called(b, "try_lock") /\ TryLock(b, openOk) =>
                         /\ last'[b][1] = "try_lock" /\ last'[b][2] # Ok
                         /\ Opens(b, openOk) => last'[b] = <<"try_lock", WouldBlock>>
                         /\ ~acquired'[b] /\ ~Holds(b)'
                         /\ acquired'[a] /\ Holds(a)'
              /\ ~(acquired'[a] /\ Holds(a)') => Unlock(a) \/ Drop(a)]_vars

\* A second Write instance was refused by try_lock(), its handle open,
\* while a writer holds the lock it took with try_lock().
C3_Witness ==
    \E a \in Inst : \E b \in Rivals(a) :
        /\ acquired[a] /\ mode[a] = "Write" /\ last[a] = <<"try_lock", Ok>>
        /\ mode[b] = "Write" /\ last[b] = <<"try_lock", WouldBlock>>
        /\ file[b] # None /\ ~acquired[b]

\* C4 as stated: a try_lock() on a Read instance for a path whose file
\* exists, which the operating system lets open, returns Ok whenever every
\* holder on the path is a reader, and the readers that held their lock
\* before still hold it: two Read instances lock the same path at the same
\* time, whichever calls first.
C4_SharedRead ==
    [][\A i \in Inst :
          (/\ mode[i] = "Read" /\ Called(i, "try_lock") /\ exists[path[i]]
           /\ TryLock(i, TRUE)
           /\ \A j \in Rivals(i) : acquired[j] => mode[j] = "Read")
          =>
          (/\ last'[i] = <<"try_lock", Ok>>
           /\ acquired'[i] /\ Holds(i)' /\ locks'[file'[i]] = "Read"
           /\ \A j \in Rivals(i) : acquired[j] => acquired'[j] /\ Holds(j)')]_vars

\* Every lock the operating system has recorded belongs to the handle of a
\* live instance.
OwnerAlive ==
    \A d \in FdSet : locks[d] # Unlocked => \E i \in Inst : Live(i) /\ file[i] = d

\* C5: no lock outlives its FileLock: a recorded lock always belongs to a
\* live instance; dropping an instance that holds its lock, without unlock(),
\* releases it, and when it was the only holder a try_lock() of any Write
\* instance on the same path then returns Ok.
C5_NoLockOutlives ==
    /\ []OwnerAlive
    /\ [][\A a \in Inst :
              acquired[a] /\ life'[a] = "dropped" /\ Drop(a) =>
                  /\ locks'[file[a]] = Unlocked
                  /\ ofd'[file[a]] = Closed
                  /\ ~acquired'[a] /\ released'[a] = path[a]
                  /\ NoOtherHolder(a) =>
                         \A b \in Rivals(a) :
                             mode[b] = "Write" /\ pc[b] = "idle" =>
                                 (try_lock(b, TRUE).res = Ok)']_vars

\* An instance was dropped holding its lock, and afterwards a Write instance
\* on the same path has taken the lock with try_lock().
C5_Witness ==
    \E a \in Inst : \E b \in Inst :
        /\ life[a] = "dropped" /\ released[a] # NoPath
        /\ Live(b) /\ path[b] = released[a] /\ mode[b] = "Write"
        /\ last[b] = <<"try_lock", Ok>> /\ acquired[b] /\ Holds(b)

\* C6: unlock() on an instance on which neither lock() nor try_lock() was
\* called returns the IoError NotFound, and changes neither the handle nor
\* the files, the open descriptors and the locks.
C6_UnlockFresh ==
    [][\A i \in Inst :
          ~attempted[i] /\ Called(i, "unlock") /\ Unlock(i) =>
              /\ last'[i] = <<"unlock", NotFound>>
              /\ file[i] = None /\ file'[i] = None
              /\ UNCHANGED <<exists, ofd, locks>>]_vars

\* unlock() has returned NotFound on an instance never locked.
C6_Witness ==
    \E i \in Inst :
        Live(i) /\ ~attempted[i] /\ last[i] = <<"unlock", NotFound>> /\ file[i] = None

\* C7 as stated: round trip on one instance of either mode, no other holder
\* on the path, the operating system letting the file open: lock() returns
\* Ok and the instance holds the lock; unlock() then returns Ok and the
\* instance does not hold it; lock() then returns Ok again and the instance
\* holds it again.
C7_RoundTrip ==
    [][\A i \in Inst :
          /\ Called(i, "lock") /\ NoOtherHolder(i) /\ Lock(i, TRUE) =>
                 /\ last'[i] = <<"lock", Ok>> /\ pc'[i] = "idle"
                 /\ acquired'[i] /\ Holds(i)'
                 /\ trip'[i] = (IF trip[i] = 2 THEN 3 ELSE 1)
          /\ trip[i] \in {1, 3} /\ Called(i, "unlock") /\ Unlock(i) =>
                 /\ last'[i] = <<"unlock", Ok>>
                 /\ ~acquired'[i] /\ ~Holds(i)'
                 /\ trip'[i] = 2
          /\ trip'[i] \in {1, 3} => Holds(i)'
          /\ trip'[i] = 2 => ~Holds(i)']_vars

\* C8 as stated: lazy creation: the first lock() or try_lock() on an
\* instance of either mode, for a path without a file, which the operating
\* system lets open, leaves a file at the path.
C8_LazyCreation ==
    [][\A i \in Inst :
          (/\ Called(i, "lock") \/ Called(i, "try_lock")
           /\ ~attempted[i] /\ ~exists[path[i]]
           /\ Lock(i, TRUE) \/ TryLock(i, TRUE))
          =>
              exists'[path[i]]]_vars

\* C9: new(P, M) is possible for every path and mode, and yields an instance
\* with these, the handle absent; the files, the open descriptors and the
\* locks are as before.
C9_NewIsPure ==
    /\ [](\A i \in Inst : life[i] = "unborn" =>
              \A p \in Paths, m \in AccessMode : ENABLED New(i, p, m))
    /\ [][\A i \in Inst, p \in Paths, m \in AccessMode :
              life[i] = "unborn" /\ Live(i)' /\ New(i, p, m) =>
                  /\ Live(i)' /\ path'[i] = p /\ mode'[i] = m
                  /\ file'[i] = None
                  /\ UNCHANGED <<exists, ofd, locks>>]_vars

\* An instance was made for the path without a file, nothing was called on
\* it, and there is still no file.
C9_Witness ==
    \E i \in Inst :
        /\ Live(i) /\ path[i] = "new.lock" /\ last[i] = NoCall /\ ~attempted[i]
        /\ file[i] = None
        /\ ~exists["new.lock"]

\* C10: a lock file that exists is never deleted.
C10_NeverDeletes ==
    [][\A p \in Paths : exists[p] => exists'[p]]_vars

\* The file made by a lock attempt is still there after its lock was
\* released by a drop and no instance has it open.
C10_Witness ==
    /\ exists["new.lock"]
    /\ \E a \in Inst : life[a] = "dropped" /\ released[a] = "new.lock"
    /\ \A d \in FdSet : ofd[d] = Closed \/ ofd[d].path # "new.lock"

\* C11: as the documentation of the type has it, the lock file an instance
\* created is removed once the instance obtained the lock: when the instance
\* that created the file at a path was dropped releasing its lock on it, no
\* file is left at the path.
C11_RemovesCreated ==
    \A a \in Inst : \A p \in Paths :
        life[a] = "dropped" /\ creator[p] = a /\ released[a] = p => ~exists[p]

\* An instance on the path of i holds a lock that the mode of i cannot share.
Incompatible(i) ==
    \E j \in Rivals(i) : acquired[j] /\ (mode[i] = "Write" \/ mode[j] = "Write")

Interrupted == LockError("Interrupted")

\* C12 as stated: a suspended lock() stays suspended for as long as an
\* incompatible holder keeps its lock.
C12_StaysSuspended ==
    [][\A i \in Inst :
          pc[i] = "blocked" /\ Incompatible(i)' => pc'[i] = "blocked"]_vars

\* C12, amended: a lock() that meets an incompatible holder is suspended; it
\* never returns the contention error; while an incompatible holder keeps its
\* lock it stays suspended unless the call is interrupted, which returns the
\* primitive's error and no lock; and a suspended lock() that can be granted
\* eventually returns Ok holding the lock, unless another instance acquires
\* first or the call is interrupted.
C12_Blocking ==
    /\ [][\A i \in Inst :
              /\ Incompatible(i) /\ Called(i, "lock") =>
                     \A openOk \in BOOLEAN :
                         Opens(i, openOk) /\ Lock(i, openOk) =>
                             /\ pc'[i] = "blocked" /\ last'[i] = <<"lock", Suspended>>
                             /\ ~acquired'[i] /\ locks' = locks
              /\ last'[i] # <<"lock", WouldBlock>>
              /\ pc[i] = "blocked" /\ Incompatible(i)' =>
                     \/ pc'[i] = "blocked"
                     \/ last'[i] = <<"lock", Interrupted>> /\ ~acquired'[i] /\ ~Holds(i)'
              /\ pc[i] = "blocked" /\ pc'[i] # "blocked" /\ last'[i] # <<"lock", Interrupted>> =>
                     last'[i] = <<"lock", Ok>> /\ acquired'[i] /\ Holds(i)']_vars
    /\ \A i \in Inst :
           (pc[i] = "blocked" /\ ~Incompatible(i)) ~>
               \/ last[i] = <<"lock", Ok>> /\ acquired[i] /\ Holds(i)
               \/ pc[i] = "blocked" /\ Incompatible(i)
               \/ last[i] = <<"lock", Interrupted>>

\* A lock() is suspended behind a writer that holds the lock.
C12_Witness ==
    \E i \in Inst : \E j \in Rivals(i) :
        /\ pc[i] = "blocked" /\ last[i] = <<"lock", Suspended>> /\ ~acquired[i]
        /\ acquired[j] /\ mode[j] = "Write"

\* C13 as stated: try_lock() never suspends: it returns in the step of the
\* call, for both modes, either Ok with the lock held or an error without
\* it; when an incompatible holder is in the way and the operating system
\* lets the file open, the error is the primitive's WouldBlock as a
\* LockError, not an IoError; and no instance is ever left waiting in a
\* try_lock().
C13_TryLockImmediate ==
    /\ [](\A i \in Inst : last[i][1] = "try_lock" => pc[i] = "idle")
    /\ [][\A i \in Inst :
              Called(i, "try_lock") =>
                  /\ \A openOk \in BOOLEAN :
                         TryLock(i, openOk) =>
                             /\ pc'[i] = "idle" /\ last'[i][2] # Suspended
                             /\ \/ last'[i] = <<"try_lock", Ok>> /\ acquired'[i] /\ Holds(i)'
                                \/ /\ last'[i][2][1] \in {"IoError", "LockError"}
                                   /\ ~acquired'[i] /\ ~Holds(i)'
                  /\ Incompatible(i) /\ TryLock(i, TRUE) =>
                         /\ last'[i] = <<"try_lock", LockError("WouldBlock")>>
                         /\ last'[i][2][1] # "IoError"]_vars

\* C14: the handle of an instance, once there, stays the same open
\* descriptor on the same file through every later step until the instance
\* is dropped: lock(), try_lock() and unlock() neither replace, close nor
\* reopen it.
C14_HandleKept ==
    [][\A i \in Inst :
          file[i] # None /\ Live(i)' =>
              /\ file'[i] = file[i]
              /\ ofd[file[i]] # Closed /\ ofd'[file[i]] = ofd[file[i]]
              /\ ofd[file[i]].path = path[i]]_vars

\* An instance has locked and unlocked, and its handle is still open on its
\* path.
C14_Witness ==
    \E i \in Inst :
        /\ Live(i) /\ trip[i] = 2 /\ last[i] = <<"unlock", Ok>>
        /\ file[i] # None /\ ofd[file[i]] # Closed /\ ofd[file[i]].path = path[i]

OpenFailed == IoError("OpenFailed")
InvalidInput == IoError("InvalidInput")

\* C15: when the open call of a lock() or try_lock() fails, refused by the
\* operating system or by the standard library, the call returns the
\* IoError, no lock changes, no descriptor is opened, no file is made, the
\* handle stays absent and the instance holds nothing; the next lock() or
\* try_lock() opens again, and when that open succeeds the handle is there
\* and the call returns Ok unless an incompatible holder is in the way.
C15_OpenFailure ==
    /\ [](\A i \in Inst :
              last[i][2] \in {OpenFailed, InvalidInput} =>
                  file[i] = None /\ ~acquired[i] /\ pc[i] = "idle")
    /\ [][\A i \in Inst :
              file[i] = None /\ (Called(i, "lock") \/ Called(i, "try_lock")) =>
                  /\ \A openOk \in BOOLEAN :
                         ~Opens(i, openOk) /\ (Lock(i, openOk) \/ TryLock(i, openOk)) =>
                             /\ last'[i][2] = (IF mode[i] = "Write" THEN OpenFailed
                                                                   ELSE InvalidInput)
                             /\ file'[i] = None /\ ~acquired'[i] /\ pc'[i] = "idle"
                             /\ UNCHANGED <<locks, ofd, exists>>
                  /\ last[i][2] \in {OpenFailed, InvalidInput} /\ Opens(i, TRUE)
                         /\ (Lock(i, TRUE) \/ TryLock(i, TRUE)) =>
                         /\ file'[i] # None /\ ofd'[file'[i]].path = path[i]
                         /\ ~Incompatible(i) => last'[i][2] = Ok /\ acquired'[i] /\ Holds(i)'
                         /\ Incompatible(i) => last'[i][2] \in {WouldBlock, Suspended}]_vars

\* A lock() on a Write instance for the path without a file has failed in
\* the open call: it returned the IoError, there is no handle and no file.
C15_Witness ==
    \E i \in Inst :
        /\ Live(i) /\ mode[i] = "Write" /\ path[i] = "new.lock"
        /\ last[i] = <<"lock", OpenFailed>> /\ file[i] = None /\ ~acquired[i]
        /\ ~exists["new.lock"]

\* C16 as stated: the handle of an instance is open exactly when lock() or
\* try_lock() has been called on it, whatever the outcome of the call.
C16_OpenIffAttempted ==
    \A i \in Inst : Live(i) => (file[i] # None <=> attempted[i])

\* C16, amended: the handle is open only after a call of lock() or
\* try_lock(), and it is open after every such call whose open call
\* succeeded, whatever the outcome of the locking; with the handle open,
\* unlock() returns Ok and has the primitive release the lock of the handle;
\* with the handle absent, also after calls that failed in the open, it
\* returns NotFound and changes no lock.
C16_OpenAfterOpen ==
    /\ [](\A i \in Inst : file[i] # None => Live(i) /\ attempted[i])
    /\ [][\A i \in Inst :
              /\ file[i] # None /\ Live(i)' => file'[i] # None
              /\ file[i] = None /\ (Called(i, "lock") \/ Called(i, "try_lock"))
                     /\ Opens(i, TRUE) /\ (Lock(i, TRUE) \/ TryLock(i, TRUE))
                     => file'[i] # None
              /\ Called(i, "unlock") /\ Unlock(i) =>
                     IF file[i] # None
                     THEN /\ last'[i] = <<"unlock", Ok>>
                          /\ locks' = [locks EXCEPT ![file[i]] = Unlocked]
                     ELSE /\ last'[i] = <<"unlock", NotFound>>
                          /\ locks' = locks]_vars

\* unlock() has returned Ok on an instance whose call before it was not a
\* lock() that returned Ok.
C16_Witness ==
    \E i \in Inst :
        /\ Live(i) /\ attempted[i] /\ file[i] # None
        /\ last[i] = <<"unlock", Ok>> /\ trip[i] = 0

\* C17: re-acquisition is idempotent: lock() or try_lock() on an instance
\* that holds its lock, a Write lock included, makes no open call, returns Ok
\* without suspending, and leaves the handle, the open descriptions and the
\* lock held on every description as they were.
C17_Reacquire ==
    /\ [](\A i \in Inst : acquired[i] => Live(i) /\ Holds(i))
    /\ [][\A i \in Inst :
              acquired[i] /\ (Called(i, "lock") \/ Called(i, "try_lock")) =>
                  \A openOk \in BOOLEAN :
                      Lock(i, openOk) \/ TryLock(i, openOk) =>
                          /\ last'[i][2] = Ok /\ pc'[i] = "idle"
                          /\ file' = file /\ ofd' = ofd /\ exists' = exists
                          /\ locks' = locks /\ acquired' = acquired]_vars

\* An instance holds a Write lock that a rival is suspended on, and both its
\* lock() and its try_lock() can now be called and return Ok at once with the
\* locks as they are.
C17_Witness ==
    \E i \in Inst :
        /\ acquired[i] /\ Callable(i) /\ mode[i] = "Write"
        /\ \E j \in Rivals(i) : pc[j] = "blocked"
        /\ lock(i, FALSE).res = Ok /\ lock(i, FALSE).locks = locks
        /\ try_lock(i, FALSE).res = Ok /\ try_lock(i, FALSE).locks = locks
        /\ ENABLED (TryLock(i, TRUE) /\ last'[i] = <<"try_lock", Ok>>
                        /\ locks' = locks)

\* The errors the locking primitive can answer a release with.
PrimErrors == {"Interrupted", "InvalidDescriptor"}

\* C18: automatic release is best-effort and silent: drop can be taken in
\* every state of a live instance that is not inside a call, whatever its
\* calls returned before; it calls unlock(), whose result, Ok or the IoError
\* NotFound of an instance without a handle, is discarded; the instance is
\* gone afterwards with its handle closed and its lock released, the files
\* and the other descriptions are untouched; and an error of the locking
\* primitive in that unlock() would change nothing of the outcome.
C18_DropSilent ==
    /\ [](\A i \in Inst :
             Callable(i) =>
                 /\ ENABLED Drop(i)
                 /\ unlock(i).res = (IF file[i] = None THEN NotFound ELSE Ok)
                 /\ \A e \in PrimErrors :
                        drop_after(i, [res |-> FromLock(e), locks |-> locks,
                                       exists |-> exists]) = drop(i))
    /\ [][\A i \in Inst :
              Callable(i) /\ life'[i] = "dropped" /\ Drop(i) =>
                  /\ last'[i] = <<"drop", unlock(i).res>>
                  /\ file'[i] = None /\ pc'[i] = "idle" /\ ~acquired'[i]
                  /\ exists' = exists
                  /\ \A d \in FdSet :
                         IF d = file[i]
                         THEN ofd'[d] = Closed /\ locks'[d] = Unlocked
                         ELSE ofd'[d] = ofd[d] /\ locks'[d] = locks[d]]_vars

\* Instances were dropped in each kind of state: one never opened, whose
\* unlock() answered NotFound, and one that held its lock.
C18_Witness ==
    \E i \in Inst : \E j \in Inst :
        /\ life[i] = "dropped" /\ last[i] = <<"drop", NotFound>>
        /\ life[j] = "dropped" /\ last[j] = <<"drop", Ok>>
        /\ released[j] # NoPath

\* C19: unlock() and drop release only the lock of the calling instance: the
\* handles of distinct instances are distinct descriptions, and a call of
\* unlock() or a drop of b leaves the lock of every other description as it
\* was.  After try_lock() on b has returned WouldBlock, b has its handle open
\* and holds nothing, and unlock() on b returns Ok, not NotFound, and changes
\* no lock.
C19_OwnLockOnly ==
    /\ [](\A b \in Inst :
             /\ \A a \in Inst \ {b} : file[a] # None => file[a] # file[b]
             /\ last[b] = <<"try_lock", WouldBlock>> =>
                    file[b] # None /\ ~Holds(b) /\ ~acquired[b])
    /\ [][\A b \in Inst :
              /\ Called(b, "unlock") /\ Unlock(b) =>
                     /\ \A d \in FdSet \ {file[b]} : locks'[d] = locks[d]
                     /\ \A a \in Inst \ {b} : Holds(a)' = Holds(a)
                     /\ last[b] = <<"try_lock", WouldBlock>> =>
                            last'[b] = <<"unlock", Ok>> /\ locks' = locks
              /\ Callable(b) /\ life'[b] = "dropped" /\ Drop(b) =>
                     /\ \A d \in FdSet \ {file[b]} : locks'[d] = locks[d]
                     /\ \A a \in Inst \ {b} : Holds(a)' = Holds(a)]_vars

\* try_lock() on b has returned WouldBlock against the Write lock of a; both
\* unlock() on b, returning Ok, and the drop of b can be taken now and leave a
\* its lock.
C19_Witness ==
    \E a \in Inst : \E b \in Rivals(a) :
        /\ Holds(a) /\ locks[file[a]] = "Write"
        /\ last[b] = <<"try_lock", WouldBlock>> /\ file[b] # None
        /\ ENABLED (Unlock(b) /\ last'[b] = <<"unlock", Ok>>
                        /\ locks'[file[a]] = "Write")
        /\ ENABLED (Drop(b) /\ life'[b] = "dropped" /\ locks'[file[a]] = "Write")

\* C20: only lock() and try_lock() open the handle or create the file: a
\* step that gives an instance its handle, opens a description or changes the
\* files is a call of lock() or try_lock() on an instance without a handle,
\* and creates at most the file at that instance's path; unlock() and drop on
\* an instance without a handle leave the handle absent and the files, the
\* descriptions and the locks as they were; and an instance that holds a lock
\* has its handle open.
C20_OnlyLockOpens ==
    /\ [](\A i \in Inst :
             /\ acquired[i] \/ Holds(i) => file[i] # None /\ ofd[file[i]] # Closed
             /\ file[i] # None =>
                    ofd[file[i]] # Closed /\ ofd[file[i]].path = path[i])
    /\ [](\A d \in FdSet : locks[d] # Unlocked => \E i \in Inst : file[i] = d)
    /\ [][\A i \in Inst :
              /\ file[i] = None /\ file'[i] # None =>
                     /\ Callable(i) /\ last'[i][1] \in {"lock", "try_lock"}
                     /\ Lock(i, TRUE) \/ TryLock(i, TRUE)
              /\ file[i] = None /\ Called(i, "unlock") /\ Unlock(i) =>
                     file'[i] = None /\ UNCHANGED <<exists, ofd, locks>>
              /\ file[i] = None /\ Callable(i) /\ life'[i] = "dropped" /\ Drop(i) =>
                     file'[i] = None /\ UNCHANGED <<exists, ofd, locks>>]_vars
    /\ [][(exists' # exists \/ \E d \in FdSet : ofd[d] = Closed /\ ofd'[d] # Closed) =>
              \E i \in Inst :
                  /\ file[i] = None /\ file'[i] # None
                  /\ exists' = [exists EXCEPT ![path[i]] = TRUE]]_vars

\* On a path with no file, unlock() was called on an instance without a
\* handle and another instance without a handle was dropped: the first has
\* no handle still and the file was not created.
C20_Witness ==
    \E i \in Inst : \E j \in Inst :
        /\ Live(i) /\ path[i] = "new.lock" /\ file[i] = None
        /\ last[i] = <<"unlock", NotFound>>
        /\ life[j] = "dropped" /\ last[j] = <<"drop", NotFound>>
        /\ ~exists["new.lock"] /\ \A d \in FdSet : ofd[d] = Closed

====
